---- MODULE Spec2Model ----
(***************************************************************************)
(* Day 17 of jsedlacek/advent-of-code-2023: the constrained directional    *)
(* shortest-path search of src/day-17/src/main.rs.                         *)
(*                                                                         *)
(* A Game is parsed from text (Game::from_str / Game::parse), then         *)
(* Game::puzzle(min_steps, max_steps) runs a best-first loop over a        *)
(* BTreeSet of entries (the frontier) and a HashMap of recorded heats      *)
(* (the ledger).  One action models one whole iteration of the loop.       *)
(*                                                                         *)
(* Two more programs of the repository follow at the end of the module:    *)
(* the pulse propagation of day 20 (src/day-20/src/game.rs) and the cycle  *)
(* skipping of day 14 (src/day-14/src/main.rs).  Each program has its own  *)
(* variables and its own specification; the variables of the programs      *)
(* that a specification does not run keep their idle values.               *)
(***************************************************************************)
EXTENDS Integers, Sequences, FiniteSets, TLC

VARIABLES
    input,      \* the text handed to from_str, a sequence of characters
    pc,         \* "start" | "ready" | "loop" | "done"
    game,       \* the parsed Game [map, max_x, max_y], or NoGame
    min_steps,  \* puzzle's first parameter
    max_steps,  \* puzzle's second parameter
    queue,      \* the BTreeSet<Entry> of puzzle
    results,    \* the HashMap<(Position, Direction, u64), u64> of puzzle
    ret,        \* what from_str / puzzle returned, or NoRet
    popped,     \* history: the entries pop_first has returned, in order
    strayed,    \* history: some pop took another entry than pop_first's
    calls,      \* history: the number of calls of puzzle on the game so far
    fates,      \* history: for each pop, the branch the loop body took and
                \* what results.get returned for the popped entry
    inserted,   \* history: the entries the last pass inserted into the queue
    \* day 20, src/day-20/src/game.rs
    d20_pc,          \* "idle" | "ready" | "sending" | "done" | "failed"
    d20_map,         \* Game.map: the modules by name, with their state
    d20_queue,       \* the VecDeque of send_signal: (from, module_name, signal)
    d20_pulse_count, \* part1's (low, high) counters
    d20_presses,     \* the calls of send_signal that part1 has made
    d20_sent,        \* history: the pulses pushed so far, in the order of the
                     \* pushes, each with the number of the pop that pushed it
    d20_ids,         \* history: for each pulse of the queue, its place in d20_sent
    d20_handled,     \* history: the pulses popped so far, in order, each with
                     \* its place in d20_sent
    \* day 14, src/day-14/src/main.rs
    d14_pc,          \* "idle" | "loop" | "done"
    d14_self,        \* the Game tilt_multiple_rounds works on
    d14_rounds,      \* the parameter rounds
    d14_index,       \* the loop counter index
    d14_history,     \* the HashMap<usize, Game> history
    d14_start        \* history: the Game at the call

vars17 == <<input, pc, game, min_steps, max_steps, queue, results, ret, popped, strayed,
            calls, fates, inserted>>

vars20 == <<d20_pc, d20_map, d20_queue, d20_pulse_count, d20_presses, d20_sent,
            d20_ids, d20_handled>>

vars14 == <<d14_pc, d14_self, d14_rounds, d14_index, d14_history, d14_start>>

vars == <<vars17, vars20, vars14>>

\* the programs of day 20 and of day 14 are not running
Idle20 ==
    /\ d20_pc = "idle"
    /\ d20_map = <<>>
    /\ d20_queue = <<>>
    /\ d20_pulse_count = <<0, 0>>
    /\ d20_presses = 0
    /\ d20_sent = <<>>
    /\ d20_ids = <<>>
    /\ d20_handled = <<>>

Idle14 ==
    /\ d14_pc = "idle"
    /\ d14_self = <<>>
    /\ d14_rounds = 0
    /\ d14_index = 0
    /\ d14_history = <<>>
    /\ d14_start = <<>>

(***************************************************************************)
(* Bounds of the model.                                                    *)
(***************************************************************************)
MaxDim == 3         \* rendered grids have 1..MaxDim rows and columns
MaxCells == 9       \* and at most MaxCells cells
MaxTieCells == 6    \* at most MaxTieCells cells where ties are broken freely
MaxCost == 1        \* a cell costs 0 or MaxCost
MaxRun == 2         \* min_steps and max_steps range over 0..MaxRun
MaxInputLen == 5    \* raw texts have at most MaxInputLen characters

(***************************************************************************)
(* Characters and digits.                                                  *)
(***************************************************************************)
Newline == "\n"

DigitChars == {"0", "1", "2", "3", "4", "5", "6", "7", "8", "9"}

\* c.to_string().parse::<u64>() on one digit character
DigitValue(c) ==
    CASE c = "0" -> 0 [] c = "1" -> 1 [] c = "2" -> 2 [] c = "3" -> 3
      [] c = "4" -> 4 [] c = "5" -> 5 [] c = "6" -> 6 [] c = "7" -> 7
      [] c = "8" -> 8 [] c = "9" -> 9

\* the character a cost is written as in an input file
DigitChar(n) ==
    CASE n = 0 -> "0" [] n = 1 -> "1" [] n = 2 -> "2" [] n = 3 -> "3"
      [] n = 4 -> "4" [] n = 5 -> "5" [] n = 6 -> "6" [] n = 7 -> "7"
      [] n = 8 -> "8" [] n = 9 -> "9"

MaxOf(S) == CHOOSE m \in S : \A n \in S : n <= m

MinOf(S) == CHOOSE m \in S : \A n \in S : m <= n

(***************************************************************************)
(* Results and errors (GameError, Result<T>).                              *)
(***************************************************************************)
NoGame == [tag |-> "NoGame"]

NoRet == [tag |-> "None"]

Ok(v) == [tag |-> "Ok", value |-> v]

Err(e) == [tag |-> "Err", error |-> e]

(***************************************************************************)
(* Game::from_str and Game::parse.                                         *)
(***************************************************************************)
\* many0(newline) from index i: the index of the first character that is
\* not a newline (Len(s) + 1 when there is none)
RECURSIVE many0_newline(_, _)
many0_newline(s, i) ==
    IF i <= Len(s) /\ s[i] = Newline THEN many0_newline(s, i + 1) ELSE i

\* the index after the longest run of digits starting at i
RECURSIVE DigitsEnd(_, _)
DigitsEnd(s, i) ==
    IF i <= Len(s) /\ s[i] \in DigitChars THEN DigitsEnd(s, i + 1) ELSE i

\* many1(map_res(one_of("0123456789"), parse::<u64>)) at index i
many1_digit(s, i) ==
    LET j == DigitsEnd(s, i)
    IN  IF j = i
        THEN [ok |-> FALSE]
        ELSE [ok |-> TRUE,
              row |-> [k \in 1..(j - i) |-> DigitValue(s[i + k - 1])],
              next |-> j]

\* the loop of separated_list1 after its first element: a separator that is
\* not followed by an element is not consumed
RECURSIVE separated_list1_rest(_, _, _)
separated_list1_rest(s, i, acc) ==
    IF i <= Len(s) /\ s[i] = Newline
    THEN LET r == many1_digit(s, i + 1)
         IN  IF r.ok
             THEN separated_list1_rest(s, r.next, Append(acc, r.row))
             ELSE [ok |-> TRUE, rows |-> acc, next |-> i]
    ELSE [ok |-> TRUE, rows |-> acc, next |-> i]

\* separated_list1(newline, many1(digit)) at index i
separated_list1(s, i) ==
    LET r == many1_digit(s, i)
    IN  IF r.ok
        THEN separated_list1_rest(s, r.next, <<r.row>>)
        ELSE [ok |-> FALSE]

\* the keys of the map built from rows: Position(x, y) per digit
Positions(rows) ==
    UNION {{<<x, y>> : x \in 0..(Len(rows[y + 1]) - 1)} : y \in 0..(Len(rows) - 1)}

\* the closure of Game::parse: the map, then max_x and max_y, NoKeys when
\* the map has no keys
BuildGame(rows) ==
    LET keys == Positions(rows)
    IN  IF keys = {}
        THEN Err("NoKeys")
        ELSE Ok([map |-> [p \in keys |-> rows[p[2] + 1][p[1] + 1]],
                 max_x |-> MaxOf({p[1] : p \in keys}),
                 max_y |-> MaxOf({p[2] : p \in keys})])

\* Game::parse at index i
parse(s, i) ==
    LET l == separated_list1(s, i)
    IN  IF ~l.ok
        THEN [ok |-> FALSE, error |-> "Parse"]
        ELSE LET g == BuildGame(l.rows)
             IN  IF g.tag = "Ok"
                 THEN [ok |-> TRUE, game |-> g.value, next |-> l.next]
                 ELSE [ok |-> FALSE, error |-> "Parse"]

\* mutant of from_str: a text that does not parse yields a Game with no
\* cells instead of the error
from_str_or_default(s) ==
    LET p == parse(s, many0_newline(s, 1))
    IN  IF p.ok /\ many0_newline(s, p.next) = Len(s) + 1
        THEN Ok(p.game)
        ELSE Ok([map |-> <<>>, max_x |-> 0, max_y |-> 0])

\* all_consuming(delimited(many0(newline), Game::parse, many0(newline)))
from_str(s) ==
    LET p == parse(s, many0_newline(s, 1))
    IN  IF ~p.ok
        THEN Err(p.error)
        ELSE IF many0_newline(s, p.next) = Len(s) + 1
             THEN Ok(p.game)
             ELSE Err("Parse")

(***************************************************************************)
(* Position, Direction, Turn, Entry.                                       *)
(***************************************************************************)
Directions == {"Left", "Down", "Right", "Up"}

Turns == {"Clockwise", "CounterClockwise"}

\* the derived Ord of Direction: the declaration order of its variants
DirectionOrd(d) ==
    CASE d = "Left" -> 0 [] d = "Down" -> 1 [] d = "Right" -> 2 [] d = "Up" -> 3

\* Position::move_dir
move_dir(pos, dir) ==
    CASE dir = "Right" -> <<pos[1] + 1, pos[2]>>
      [] dir = "Down"  -> <<pos[1], pos[2] + 1>>
      [] dir = "Left"  -> <<pos[1] - 1, pos[2]>>
      [] dir = "Up"    -> <<pos[1], pos[2] - 1>>

\* mutant of turn: both turns go clockwise
turn_clockwise_only(dir, t) ==
    CASE dir = "Right" -> "Down"
      [] dir = "Down"  -> "Left"
      [] dir = "Left"  -> "Up"
      [] dir = "Up"    -> "Right"

\* mutant of turn: the counter-clockwise turn from Right turns back
turn_reverses(dir, t) ==
    CASE dir = "Right" /\ t = "Clockwise" -> "Down"
      [] dir = "Down"  /\ t = "Clockwise" -> "Left"
      [] dir = "Left"  /\ t = "Clockwise" -> "Up"
      [] dir = "Up"    /\ t = "Clockwise" -> "Right"
      [] dir = "Right" /\ t = "CounterClockwise" -> "Left"
      [] dir = "Down"  /\ t = "CounterClockwise" -> "Right"
      [] dir = "Left"  /\ t = "CounterClockwise" -> "Down"
      [] dir = "Up"    /\ t = "CounterClockwise" -> "Left"

\* Direction::turn
turn(dir, t) ==
    CASE dir = "Right" /\ t = "Clockwise" -> "Down"
      [] dir = "Down"  /\ t = "Clockwise" -> "Left"
      [] dir = "Left"  /\ t = "Clockwise" -> "Up"
      [] dir = "Up"    /\ t = "Clockwise" -> "Right"
      [] dir = "Right" /\ t = "CounterClockwise" -> "Up"
      [] dir = "Down"  /\ t = "CounterClockwise" -> "Right"
      [] dir = "Left"  /\ t = "CounterClockwise" -> "Down"
      [] dir = "Up"    /\ t = "CounterClockwise" -> "Left"

\* Entry::new
Entry(pos, dir, steps, heat) ==
    [pos |-> pos, dir |-> dir, steps |-> steps, heat |-> heat]

\* mutant of EntryKey: the run length is compared before the heat
EntryKey_steps_first(e) ==
    <<e.steps, e.heat, e.pos[1], e.pos[2], DirectionOrd(e.dir)>>

\* mutant of EntryKey: the direction is left out of the comparison
EntryKey_without_dir(e) == <<e.heat, e.steps, e.pos[1], e.pos[2], 0>>

\* the key of an entry under Ord for Entry: (heat, steps, pos, dir)
EntryKey(e) == <<e.heat, e.steps, e.pos[1], e.pos[2], DirectionOrd(e.dir)>>

\* lexicographic "less than" on two keys of the same length, from index i
RECURSIVE LexLess(_, _, _)
LexLess(a, b, i) ==
    IF i > Len(a)
    THEN FALSE
    ELSE IF a[i] # b[i] THEN a[i] < b[i] ELSE LexLess(a, b, i + 1)

\* Ord for Entry: cmp(a, b) = Less
cmp_less(a, b) == LexLess(EntryKey(a), EntryKey(b), 1)

\* the entries of S that are least in components i.. of their keys, among
\* entries that agree on the components before i
RECURSIVE LeastFrom(_, _)
LeastFrom(S, i) ==
    IF i > 5
    THEN S
    ELSE LET m == MinOf({EntryKey(e)[i] : e \in S})
         IN  LeastFrom({e \in S : EntryKey(e)[i] = m}, i + 1)

\* BTreeSet::pop_first: the least element under Ord for Entry
first(q) == CHOOSE e \in LeastFrom(q, 1) : TRUE

(***************************************************************************)
(* Game::calculate_next_entry and the body of puzzle's loop.               *)
(***************************************************************************)
NoTurn == "None"

\* mutant of calculate_next_entry: a turn does not start a new run
calculate_next_entry_keeps_run(g, pos, dir, heat, steps, t) ==
    LET next_dir == IF t # NoTurn THEN turn(dir, t) ELSE dir
        next_pos == move_dir(pos, next_dir)
    IN  IF next_pos \in DOMAIN g.map
        THEN {Entry(next_pos, next_dir, steps + 1, heat + g.map[next_pos])}
        ELSE {}

\* mutant of calculate_next_entry: the next position is not looked up in the
\* map, a cell outside it costs nothing
calculate_next_entry_unchecked(g, pos, dir, heat, steps, t) ==
    LET next_dir == IF t # NoTurn THEN turn(dir, t) ELSE dir
        next_steps == IF t # NoTurn THEN 1 ELSE steps + 1
        next_pos == move_dir(pos, next_dir)
    IN  IF next_pos \in DOMAIN g.map
        THEN {Entry(next_pos, next_dir, next_steps, heat + g.map[next_pos])}
        ELSE {Entry(next_pos, next_dir, next_steps, heat)}

\* Game::calculate_next_entry: a set holding the next entry, or the empty
\* set for None
calculate_next_entry(g, pos, dir, heat, steps, t) ==
    LET next_dir == IF t # NoTurn THEN turn(dir, t) ELSE dir
        next_steps == IF t # NoTurn THEN 1 ELSE steps + 1
        next_pos == move_dir(pos, next_dir)
    IN  IF next_pos \in DOMAIN g.map
        THEN {Entry(next_pos, next_dir, next_steps, heat + g.map[next_pos])}
        ELSE {}

\* mutant of Successors: going straight is allowed up to and including a
\* run of mx + 1
Successors_one_more(g, mn, mx, e) ==
    (IF e.steps <= mx
     THEN calculate_next_entry(g, e.pos, e.dir, e.heat, e.steps, NoTurn)
     ELSE {})
    \cup
    (IF e.steps >= mn
     THEN UNION {calculate_next_entry(g, e.pos, e.dir, e.heat, e.steps, t) : t \in Turns}
     ELSE {})

\* mutant of Successors: the turns are made whatever the run
Successors_turns_anytime(g, mn, mx, e) ==
    (IF e.steps < mx
     THEN calculate_next_entry(g, e.pos, e.dir, e.heat, e.steps, NoTurn)
     ELSE {})
    \cup
    UNION {calculate_next_entry(g, e.pos, e.dir, e.heat, e.steps, t) : t \in Turns}

\* the entries the loop body inserts for a popped entry it expands
Successors(g, mn, mx, e) ==
    (IF e.steps < mx
     THEN calculate_next_entry(g, e.pos, e.dir, e.heat, e.steps, NoTurn)
     ELSE {})
    \cup
    (IF e.steps >= mn
     THEN UNION {calculate_next_entry(g, e.pos, e.dir, e.heat, e.steps, t) : t \in Turns}
     ELSE {})

\* mutant of Key: the ledger is keyed by position alone
Key_pos_only(e) == <<e.pos>>

\* mutant of Key: the ledger is keyed by the heat as well
Key_with_heat(e) == <<e.pos, e.dir, e.steps, e.heat>>

\* the key of an entry in results
Key(e) == <<e.pos, e.dir, e.steps>>

end_pos(g) == <<g.max_x, g.max_y>>

\* the popped entry is dropped by the `continue` of the out-of-map guard
Outside(g, e) == e.pos \notin DOMAIN g.map

\* mutant of Stale: only a strictly greater heat is dropped
Stale_strict(r, e) == Key(e) \in DOMAIN r /\ r[Key(e)] < e.heat

\* mutant of Stale: nothing is ever dropped as stale
Stale_never(r, e) == FALSE

\* the popped entry is dropped by the `continue` of the staleness check
Stale(r, e) == Key(e) \in DOMAIN r /\ r[Key(e)] <= e.heat

\* the popped entry is dropped by one of the two `continue`s
Skipped(g, r, e) == Outside(g, e) \/ Stale(r, e)

\* mutant of IsAnswer: the run must exceed min_steps
IsAnswer_strict(g, mn, r, e) ==
    /\ ~Skipped(g, r, e)
    /\ e.steps > mn
    /\ e.pos = end_pos(g)

\* the popped entry makes puzzle return Ok(heat)
IsAnswer(g, mn, r, e) ==
    /\ ~Skipped(g, r, e)
    /\ e.steps >= mn
    /\ e.pos = end_pos(g)

\* results.insert((pos, dir, steps), heat)
results_insert(r, k, h) == (k :> h) @@ r

\* mutant of Body: an entry dropped by a `continue` stays in the queue
Body_keeps_skipped(g, mn, mx, q, r, e) ==
    LET q1 == q \ {e}
    IN  IF Skipped(g, r, e)
        THEN [queue |-> q, results |-> r, ret |-> NoRet]
        ELSE IF IsAnswer(g, mn, r, e)
        THEN [queue |-> q1, results |-> r, ret |-> Ok(e.heat)]
        ELSE [queue |-> q1 \cup Successors(g, mn, mx, e),
              results |-> IF e.steps >= mn THEN results_insert(r, Key(e), e.heat) ELSE r,
              ret |-> NoRet]

\* one iteration of the while-let loop with e popped from the queue: the
\* queue, the ledger and the value returned (NoRet while the loop goes on)
Body(g, mn, mx, q, r, e) ==
    LET q1 == q \ {e}
    IN  IF Skipped(g, r, e)
        THEN [queue |-> q1, results |-> r, ret |-> NoRet]
        ELSE IF IsAnswer(g, mn, r, e)
        THEN [queue |-> q1, results |-> r, ret |-> Ok(e.heat)]
        ELSE [queue |-> q1 \cup Successors(g, mn, mx, e),
              results |-> IF e.steps >= mn THEN results_insert(r, Key(e), e.heat) ELSE r,
              ret |-> NoRet]

Some(v) == [tag |-> "Some", value |-> v]

\* results.get(&k)
results_get(r, k) == IF k \in DOMAIN r THEN Some(r[k]) ELSE [tag |-> "None"]

\* the branch the loop body takes for the popped entry e
Branch(g, mn, r, e) ==
    IF Outside(g, e) THEN "outside"
    ELSE IF Stale(r, e) THEN "stale"
    ELSE IF IsAnswer(g, mn, r, e) THEN "return"
    ELSE "expand"

\* the branch taken for e together with the ledger's answer for e
Fate(g, mn, r, e) ==
    [branch |-> Branch(g, mn, r, e), existing_heat |-> results_get(r, Key(e))]

\* the entries the loop body hands to queue.insert for the popped entry e
Inserted(g, mn, mx, r, e) ==
    IF Branch(g, mn, r, e) = "expand" THEN Successors(g, mn, mx, e) ELSE {}

\* the frontier puzzle starts from
Seeds ==
    {Entry(<<0, 0>>, "Right", 0, 0), Entry(<<0, 0>>, "Down", 0, 0)}

EmptyResults == <<>>

\* one pass of `while let Some(..) = queue.pop_first()` on the loop's state
\* st = [queue, results, ret], or the Err(EndUnreachable) after the loop; a
\* state that has returned stays as it is
Pass(g, mn, mx, st) ==
    IF st.ret # NoRet
    THEN st
    ELSE IF st.queue = {}
    THEN [st EXCEPT !.ret = Err("EndUnreachable")]
    ELSE Body(g, mn, mx, st.queue, st.results, first(st.queue))

\* n passes of the loop, split in halves to keep the evaluation shallow
RECURSIVE Passes(_, _, _, _, _)
Passes(g, mn, mx, st, n) ==
    IF n = 0 \/ st.ret # NoRet
    THEN st
    ELSE IF n = 1
    THEN Pass(g, mn, mx, st)
    ELSE LET mid == Passes(g, mn, mx, st, n \div 2)
         IN  Passes(g, mn, mx, mid, n - (n \div 2))

\* the loop run until it returns: n passes, then 2n more, and so on
RECURSIVE puzzle_loop(_, _, _, _, _)
puzzle_loop(g, mn, mx, st, n) ==
    LET after == Passes(g, mn, mx, st, n)
    IN  IF after.ret # NoRet
        THEN after.ret
        ELSE puzzle_loop(g, mn, mx, after, 2 * n)

\* Game::puzzle as a function of the Game and the configuration
puzzle(g, mn, mx) ==
    puzzle_loop(g, mn, mx, [queue |-> Seeds, results |-> EmptyResults, ret |-> NoRet], 1)

(***************************************************************************)
(* Inputs.                                                                 *)
(***************************************************************************)
Costs == {0, MaxCost}

\* rectangular grids of at most n cells: h rows of w costs
GridsUpTo(n) ==
    UNION {[1..d[2] -> [1..d[1] -> Costs]] :
              d \in {x \in (1..MaxDim) \X (1..MaxDim) : x[1] * x[2] <= n}}

Grids == GridsUpTo(MaxCells)

\* the text of a grid: its rows as digits, separated by newlines
RECURSIVE Render(_)
Render(rows) ==
    IF Len(rows) = 0
    THEN <<>>
    ELSE LET line == [k \in 1..Len(rows[1]) |-> DigitChar(rows[1][k])]
         IN  IF Len(rows) = 1
             THEN line
             ELSE line \o <<Newline>> \o Render(Tail(rows))

Alphabet == {"0", "1", Newline, "x"}

\* every text of at most MaxInputLen characters over Alphabet
RawInputs == UNION {[1..n -> Alphabet] : n \in 0..MaxInputLen}

Inputs == {Render(g) : g \in Grids} \cup RawInputs

(***************************************************************************)
(* The state machine.                                                      *)
(***************************************************************************)
Init ==
    /\ input \in Inputs
    /\ pc = "start"
    /\ game = NoGame
    /\ min_steps = 0
    /\ max_steps = 0
    /\ queue = {}
    /\ results = EmptyResults
    /\ ret = NoRet
    /\ popped = <<>>
    /\ strayed = FALSE
    /\ calls = 0
    /\ fates = <<>>
    /\ inserted = {}
    /\ Idle20
    /\ Idle14

\* input.parse::<Game>()
Parse ==
    /\ pc = "start"
    /\ LET g == from_str(input)
       IN  IF g.tag = "Ok"
           THEN /\ game' = g.value
                /\ pc' = "ready"
                /\ ret' = ret
           ELSE /\ game' = game
                /\ pc' = "done"
                /\ ret' = g
    /\ UNCHANGED <<input, min_steps, max_steps, queue, results, popped, strayed,
                   calls, fates, inserted>>
    /\ UNCHANGED <<vars20, vars14>>

\* mutant of Enter: the ledger of the previous call is kept
Enter_keeps_results(mn, mx) ==
    /\ min_steps' = mn
    /\ max_steps' = mx
    /\ queue' = Seeds
    /\ results' = results
    /\ ret' = NoRet
    /\ pc' = "loop"
    /\ calls' = calls + 1
    /\ popped' = <<>>
    /\ fates' = <<>>
    /\ inserted' = {}
    /\ UNCHANGED <<input, game, strayed>>
    /\ UNCHANGED <<vars20, vars14>>

\* puzzle(mn, mx) from its entry up to the loop: a fresh queue with the
\* seeds and a fresh ledger; nothing of the Game is written
Enter(mn, mx) ==
    /\ min_steps' = mn
    /\ max_steps' = mx
    /\ queue' = Seeds
    /\ results' = EmptyResults
    /\ ret' = NoRet
    /\ pc' = "loop"
    /\ calls' = calls + 1
    /\ popped' = <<>>
    /\ fates' = <<>>
    /\ inserted' = {}
    /\ UNCHANGED <<input, game, strayed>>
    /\ UNCHANGED <<vars20, vars14>>

\* the call of puzzle(mn, mx) on the parsed game, up to the loop
Call(mn, mx) ==
    /\ pc = "ready"
    /\ Enter(mn, mx)

CallPuzzle == \E mn \in 0..MaxRun, mx \in 0..MaxRun : Call(mn, mx)

\* one pass of the loop with e popped, or the return after it
Step(e) ==
    LET b == Body(game, min_steps, max_steps, queue, results, e)
    IN  /\ queue' = b.queue
        /\ results' = b.results
        /\ ret' = b.ret
        /\ pc' = IF b.ret # NoRet THEN "done" ELSE "loop"
        /\ inserted' = Inserted(game, min_steps, max_steps, results, e)

\* one iteration of `while let Some(..) = queue.pop_first()`, or the
\* Err(EndUnreachable) after the loop
Loop ==
    /\ pc = "loop"
    /\ IF queue = {}
       THEN /\ ret' = Err("EndUnreachable")
            /\ pc' = "done"
            /\ UNCHANGED <<queue, results, popped, fates, inserted>>
       ELSE /\ Step(first(queue))
            /\ popped' = Append(popped, first(queue))
            /\ fates' = Append(fates, Fate(game, min_steps, results, first(queue)))
    /\ UNCHANGED <<input, game, min_steps, max_steps, strayed, calls>>
    /\ UNCHANGED <<vars20, vars14>>

Next == Parse \/ CallPuzzle \/ Loop

Spec == Init /\ [][Next]_vars

(***************************************************************************)
(* The sample inputs of the tests part1, part2_1 and part2_2, and the runs *)
(* of part1 and part2 on them.                                             *)
(***************************************************************************)
\* sample-input.txt: the 13 x 13 sample grid of the puzzle
SampleRows ==
    <<
        <<2, 4, 1, 3, 4, 3, 2, 3, 1, 1, 3, 2, 3>>,
        <<3, 2, 1, 5, 4, 5, 3, 5, 3, 5, 6, 2, 3>>,
        <<3, 2, 5, 5, 2, 4, 5, 6, 5, 4, 2, 5, 4>>,
        <<3, 4, 4, 6, 5, 8, 5, 8, 4, 5, 4, 5, 2>>,
        <<4, 5, 4, 6, 6, 5, 7, 8, 6, 7, 5, 3, 6>>,
        <<1, 4, 3, 8, 5, 9, 8, 7, 9, 8, 4, 5, 4>>,
        <<4, 4, 5, 7, 8, 7, 6, 9, 8, 7, 7, 6, 6>>,
        <<3, 6, 3, 7, 8, 7, 7, 9, 7, 9, 6, 5, 3>>,
        <<4, 6, 5, 4, 9, 6, 7, 9, 8, 6, 8, 8, 7>>,
        <<4, 5, 6, 4, 6, 7, 9, 9, 8, 6, 4, 5, 3>>,
        <<1, 2, 2, 4, 6, 8, 6, 8, 6, 5, 5, 6, 3>>,
        <<2, 5, 4, 6, 5, 4, 8, 8, 8, 7, 7, 3, 5>>,
        <<4, 3, 2, 2, 6, 7, 4, 6, 5, 5, 5, 3, 3>>>>

\* sample-input-2.txt: 1s along the top row and down the right column, 9s
\* elsewhere, 12 columns by 5 rows
SampleRows2 ==
    <<
        <<1, 1, 1, 1, 1, 1, 1, 1, 1, 1, 1, 1>>,
        <<9, 9, 9, 9, 9, 9, 9, 9, 9, 9, 9, 1>>,
        <<9, 9, 9, 9, 9, 9, 9, 9, 9, 9, 9, 1>>,
        <<9, 9, 9, 9, 9, 9, 9, 9, 9, 9, 9, 1>>,
        <<9, 9, 9, 9, 9, 9, 9, 9, 9, 9, 9, 1>>>>

\* the files end with a newline
SampleInput == Render(SampleRows) \o <<Newline>>

SampleInput2 == Render(SampleRows2) \o <<Newline>>

InitOn(text) ==
    /\ input = text
    /\ pc = "start"
    /\ game = NoGame
    /\ min_steps = 0
    /\ max_steps = 0
    /\ queue = {}
    /\ results = EmptyResults
    /\ ret = NoRet
    /\ popped = <<>>
    /\ strayed = FALSE
    /\ calls = 0
    /\ fates = <<>>
    /\ inserted = {}
    /\ Idle20
    /\ Idle14

\* a call of puzzle(mn, mx) from its entry to its return
Run(mn, mx) ==
    /\ pc = "ready"
    /\ min_steps' = mn
    /\ max_steps' = mx
    /\ ret' = puzzle(game, mn, mx)
    /\ pc' = "done"
    /\ calls' = calls + 1
    /\ UNCHANGED <<input, game, queue, results, popped, strayed, fates, inserted>>
    /\ UNCHANGED <<vars20, vars14>>

\* Game::part1
part1 == Run(0, 3)

\* Game::part2
part2 == Run(4, 10)

\* the tests part1, part2_1 and part2_2, and the same calls on the small
\* grids
InitTests == \E text \in {SampleInput, SampleInput2} \cup {Render(g) : g \in Grids} : InitOn(text)

SpecTests == InitTests /\ [][Parse \/ part1 \/ part2]_vars

(***************************************************************************)
(* Legal paths, defined from the rules and not from the search: a path     *)
(* starts at (0,0), moves one cell at a time inside the map, never         *)
(* reverses, has no run longer than mx, turns only after a run of at least *)
(* mn, and ends on the goal after a run of at least mn.  LegalMin is the   *)
(* least sum of the costs of the cells entered, by relaxation to a fixed   *)
(* point over the path states (cell, direction, run); -1 stands for "no    *)
(* legal path".                                                            *)
(***************************************************************************)
Vec(d) ==
    CASE d = "Right" -> <<1, 0>> [] d = "Left" -> <<-1, 0>>
      [] d = "Down" -> <<0, 1>> [] d = "Up" -> <<0, -1>>

Perpendicular(d1, d2) == Vec(d1)[1] * Vec(d2)[1] + Vec(d1)[2] * Vec(d2)[2] = 0

Rectangular(g) == (DOMAIN g.map) = ((0..g.max_x) \X (0..g.max_y))

PathStates(g, mx) == (DOMAIN g.map) \X Directions \X (1..mx)

Best(S) == IF S \ {-1} = {} THEN -1 ELSE MinOf(S \ {-1})

\* the path states a legal path can be in one move before it is in s
Before(g, mn, mx, s) ==
    LET from == <<s[1][1] - Vec(s[2])[1], s[1][2] - Vec(s[2])[2]>>
    IN  IF from \notin DOMAIN g.map
        THEN {}
        ELSE IF s[3] > 1
        THEN {<<from, s[2], s[3] - 1>>}
        ELSE {<<from, d, n>> : d \in {x \in Directions : Perpendicular(x, s[2])},
                               n \in mn..mx} \cap PathStates(g, mx)

\* the cost of the one-move path into s, when there is one
FirstMove(g, s) ==
    IF s[3] = 1 /\ <<s[1][1] - Vec(s[2])[1], s[1][2] - Vec(s[2])[2]>> = <<0, 0>>
    THEN g.map[s[1]]
    ELSE -1

Relax(g, mn, mx, dist) ==
    [s \in PathStates(g, mx) |->
        Best({dist[s]} \cup
             {dist[t] + g.map[s[1]] : t \in {u \in Before(g, mn, mx, s) : dist[u] # -1}})]

RECURSIVE RelaxToFixpoint(_, _, _, _)
RelaxToFixpoint(g, mn, mx, dist) ==
    LET next == Relax(g, mn, mx, dist)
    IN  IF next = dist THEN dist ELSE RelaxToFixpoint(g, mn, mx, next)

LegalMin(g, mn, mx) ==
    LET dist == RelaxToFixpoint(g, mn, mx, [s \in PathStates(g, mx) |-> FirstMove(g, s)])
    IN  Best({dist[s] : s \in {u \in PathStates(g, mx) : u[1] = end_pos(g) /\ u[3] >= mn}}
             \cup (IF end_pos(g) = <<0, 0>> /\ mn = 0 THEN {0} ELSE {}))

ValidConfig == max_steps >= 1 /\ min_steps <= max_steps

Returned == pc = "done" /\ game # NoGame

\* C1: on a rectangular grid and a configuration with maxRun >= 1 and
\* minRun <= maxRun, a cost returned by puzzle is the least cost of a legal
\* path from (0,0) to (max_x, max_y).
C1_ReturnedCostIsLegalMinimum ==
    (Returned /\ ret.tag = "Ok" /\ Rectangular(game) /\ ValidConfig)
        => ret.value = LegalMin(game, min_steps, max_steps)

\* a cost of at least 1 was returned under a run limit of 2 after entries
\* heading each of the four directions were popped
C1_Witness ==
    /\ Returned /\ ret.tag = "Ok" /\ Rectangular(game) /\ ValidConfig
    /\ max_steps = 2
    /\ ret.value >= 1
    /\ {popped[i].dir : i \in 1..Len(popped)} = Directions

\* puzzle's goal condition on an entry
GoalCondition(e) == e.steps >= min_steps /\ e.pos = end_pos(game)

\* C2: puzzle returns Err(EndUnreachable) exactly when there is no legal
\* path from (0,0) to (max_x, max_y); the failure is no numeric cost; and it
\* is returned only with the frontier empty and no popped entry satisfying
\* the goal condition.
C2_UnreachableIffNoLegalPath ==
    Returned =>
        /\ (ret = Err("EndUnreachable")) <=> (LegalMin(game, min_steps, max_steps) = -1)
        /\ ret.tag = "Ok" => ret.value \in Nat
        /\ ret.tag = "Err" => /\ "value" \notin DOMAIN ret
                              /\ queue = {}
                              /\ \A i \in 1..Len(popped) : ~GoalCondition(popped[i])

OneByOne == Returned /\ DOMAIN game.map = {<<0, 0>>}

\* C3: on a 1 x 1 grid puzzle returns cost 0 without a move when minRun = 0
\* (one seed is popped, nothing is inserted), and Unreachable when
\* minRun > 0.
C3_OneByOneGrid ==
    OneByOne =>
        IF min_steps = 0
        THEN /\ ret = Ok(0)
             /\ Len(popped) = 1 /\ popped[1] \in Seeds
             /\ queue \subseteq Seeds
        ELSE ret = Err("EndUnreachable")

C3_Witness == OneByOne /\ min_steps = 0 /\ ret = Ok(0) /\ Len(popped) = 1

\* C4: part1 on the 13 x 13 sample grid returns 102.
C4_SamplePart1Is102 ==
    (pc = "done" /\ input = SampleInput /\ min_steps = 0 /\ max_steps = 3)
        => ret = Ok(102)

C4_Witness ==
    /\ pc = "done" /\ ret.tag = "Ok"
    /\ input = SampleInput /\ min_steps = 0 /\ max_steps = 3
    /\ Rectangular(game) /\ game.max_x = 12 /\ game.max_y = 12

\* C5: part2 on the 13 x 13 sample grid returns 94.
C5_SamplePart2Is94 ==
    (pc = "done" /\ input = SampleInput /\ min_steps = 4 /\ max_steps = 10)
        => ret = Ok(94)

C5_Witness ==
    /\ pc = "done" /\ ret.tag = "Ok"
    /\ input = SampleInput /\ min_steps = 4 /\ max_steps = 10
    /\ Rectangular(game) /\ game.max_x = 12 /\ game.max_y = 12

\* the sum of the costs of the cells entered along the top row and then
\* down the right column
BorderCost(g) ==
    LET cells == ({<<x, 0>> : x \in 1..g.max_x} \cup {<<g.max_x, y>> : y \in 1..g.max_y})
        RECURSIVE Sum(_)
        Sum(S) == IF S = {} THEN 0
                  ELSE LET c == CHOOSE c \in S : TRUE IN g.map[c] + Sum(S \ {c})
    IN  Sum(cells)

\* C6: part2 on the second sample grid returns 71, more than the cost of
\* the border of 1s.
C6_Sample2Part2Is71 ==
    (pc = "done" /\ input = SampleInput2 /\ min_steps = 4 /\ max_steps = 10)
        => ret = Ok(71) /\ BorderCost(game) < 71

C6_Witness ==
    /\ pc = "done" /\ ret.tag = "Ok"
    /\ input = SampleInput2 /\ min_steps = 4 /\ max_steps = 10
    /\ Rectangular(game) /\ game.max_x = 11 /\ game.max_y = 4
    /\ BorderCost(game) = 15

\* the entries of q that Ord for Entry puts before every other entry of q
FirstCandidates(q) == {e \in q : \A f \in q \ {e} : cmp_less(e, f)}

\* C7: puzzle is deterministic: at every pass of the loop exactly one entry
\* of the frontier precedes all the others under Ord for Entry, so the entry
\* popped, and with it the run and its result, is a function of the grid
\* and the configuration.
C7_PopIsDetermined ==
    (pc = "loop" /\ queue # {}) =>
        /\ Cardinality(FirstCandidates(queue)) = 1
        /\ first(queue) \in FirstCandidates(queue)

\* two entries that differ only in their direction are in the frontier
C7_Witness ==
    /\ pc = "loop" /\ Len(popped) >= 2
    /\ \E e, f \in queue :
          /\ e # f /\ e.heat = f.heat /\ e.steps = f.steps /\ e.pos = f.pos

\* C9: a configuration with maxRun < 1 or maxRun < minRun is rejected before
\* the search: nothing is popped or inserted and neither a cost nor
\* Unreachable is returned.
C9_InvalidConfigurationRejected ==
    (Returned /\ ~ValidConfig) =>
        /\ popped = <<>>
        /\ ret.tag = "Err" /\ ret.error # "EndUnreachable"

\* a text with no digit row: no rows, or rows of no columns
EmptyGridInput(s) == \A i \in 1..Len(s) : s[i] = Newline

LeastHeat(q) == {e \in q : \A f \in q : e.heat <= f.heat}

\* one iteration of the loop popping any entry of least heat, or the
\* Err(EndUnreachable) after the loop; popped keeps the last pop only
LoopAnyTie ==
    /\ pc = "loop"
    /\ IF queue = {}
       THEN /\ ret' = Err("EndUnreachable")
            /\ pc' = "done"
            /\ UNCHANGED <<queue, results, popped, strayed, fates, inserted>>
       ELSE \E e \in LeastHeat(queue) :
               /\ Step(e)
               /\ popped' = <<e>>
               /\ fates' = <<Fate(game, min_steps, results, e)>>
               /\ strayed' = (strayed \/ e # first(queue))
    /\ UNCHANGED <<input, game, min_steps, max_steps, calls>>
    /\ UNCHANGED <<vars20, vars14>>

InitAnyTie == \E g \in GridsUpTo(MaxTieCells) : InitOn(Render(g))

SpecAnyTie == InitAnyTie /\ [][Parse \/ CallPuzzle \/ LoopAnyTie]_vars

\* C8: with the pop free to take any entry of least heat, every run returns
\* what puzzle returns with the order (heat, steps, pos, dir): the same cost
\* or the same Unreachable.
C8_ResultIndependentOfTieBreak ==
    Returned => ret = puzzle(game, min_steps, max_steps)

\* a run returned a cost after popping, at some pass, an entry that
\* pop_first would not have popped
C8_Witness == Returned /\ ret.tag = "Ok" /\ ret.value >= 1 /\ strayed

(***************************************************************************)
(* The shape of a constructed Game.                                        *)
(***************************************************************************)
\* C11: every Game that from_str constructs has a cost for every (x, y) with
\* 0 <= x <= max_x and 0 <= y <= max_y, its goal (max_x, max_y) among them;
\* an input whose rows differ in length gives no Game
C11_GameIsFullRectangle ==
    game # NoGame => /\ Rectangular(game)
                     /\ end_pos(game) \in DOMAIN game.map

(***************************************************************************)
(* Two queries on one Game, as main makes them: when a call of puzzle has  *)
(* returned, puzzle is called again on the same game.                      *)
(***************************************************************************)
\* the second call of puzzle in main, with any configuration
CallAgain ==
    /\ pc = "done"
    /\ game # NoGame
    /\ calls = 1
    /\ \E mn \in 0..MaxRun, mx \in 0..MaxRun : Enter(mn, mx)

SpecQueries == InitAnyTie /\ [][Parse \/ CallPuzzle \/ Loop \/ CallAgain]_vars

\* C12: a query leaves the Game as from_str built it, and a query made
\* after another one on the same Game returns what puzzle returns for its
\* configuration on that Game alone, whatever the first query was
C12_QueriesAreIsolated ==
    /\ game # NoGame => from_str(input) = Ok(game)
    /\ Returned /\ calls = 2 => ret = puzzle(game, min_steps, max_steps)

\* a second query returned a cost after three pops or more
C12_Witness ==
    /\ Returned /\ calls = 2
    /\ ret.tag = "Ok" /\ ret.value >= 1
    /\ Len(popped) >= 3

(***************************************************************************)
(* The passes of the loop, one at a time: the entry the last pass popped,  *)
(* the branch it took and the entries it inserted.                         *)
(***************************************************************************)
LastPopped == popped[Len(popped)]

LastFate == fates[Len(fates)]

Range(seq) == {seq[i] : i \in 1..Len(seq)}

\* C13: a pass inserts an entry whose direction differs from the popped
\* entry's only if the popped entry has steps >= min_steps; puzzle returns a
\* cost only as the heat of a popped entry on the goal with
\* steps >= min_steps, and no popped entry on the goal with
\* steps < min_steps makes it return
C13_TurnAndStopGated ==
    /\ popped # <<>> =>
          \A n \in inserted : n.dir # LastPopped.dir => LastPopped.steps >= min_steps
    /\ Returned /\ ret.tag = "Ok" =>
          /\ popped # <<>>
          /\ LastPopped.pos = end_pos(game)
          /\ LastPopped.steps >= min_steps
          /\ ret.value = LastPopped.heat
    /\ \A i \in 1..Len(popped) :
          popped[i].pos = end_pos(game) /\ popped[i].steps < min_steps
              => fates[i].branch # "return"

\* with min_steps = 2, an entry on the goal after a run of 1 was popped and
\* not accepted, and an entry with a run of 2 was popped and made a turn
C13_Witness ==
    /\ Returned /\ min_steps = 2
    /\ \E i \in 1..Len(popped) :
          /\ popped[i].pos = end_pos(game) /\ popped[i].steps = 1
          /\ fates[i].branch = "expand"
    /\ \E i \in 1..Len(popped), e \in queue \cup Range(popped) :
          /\ fates[i].branch = "expand" /\ popped[i].steps = 2
          /\ e.steps = 1 /\ e.dir # popped[i].dir
          /\ e.pos = move_dir(popped[i].pos, e.dir)

\* C14: with max_steps >= 1 and min_steps <= max_steps, every entry that
\* has been in the queue is a seed or has 1 <= steps <= max_steps; an
\* inserted entry that keeps the popped entry's direction comes from a
\* popped entry with steps < max_steps and has its steps + 1, and an
\* inserted entry that turns has steps = 1
C14_RunLengthBounded ==
    /\ ValidConfig =>
          \A e \in queue \cup inserted \cup Range(popped) :
              e \in Seeds \/ (1 <= e.steps /\ e.steps <= max_steps)
    /\ popped # <<>> =>
          \A n \in inserted :
              IF n.dir = LastPopped.dir
              THEN LastPopped.steps < max_steps /\ n.steps = LastPopped.steps + 1
              ELSE n.steps = 1

\* a popped entry with steps = max_steps = 2 was expanded: it inserted a
\* turn and nothing straight on
C14_Witness ==
    /\ ValidConfig /\ max_steps = 2 /\ pc = "loop" /\ popped # <<>>
    /\ LastPopped.steps = 2
    /\ LastFate.branch = "expand"
    /\ inserted # {}
    /\ \A n \in inserted : n.dir # LastPopped.dir /\ n.steps = 1

Opposite(d1, d2) ==
    Vec(d1)[1] + Vec(d2)[1] = 0 /\ Vec(d1)[2] + Vec(d2)[2] = 0

\* C15: every entry a pass inserts has the direction of the popped entry or
\* one perpendicular to it, never the opposite one; Direction::turn gives a
\* perpendicular direction for each of the four directions and both turns
C15_NoReversal ==
    /\ popped # <<>> =>
          \A n \in inserted :
              /\ n.dir = LastPopped.dir \/ Perpendicular(n.dir, LastPopped.dir)
              /\ ~Opposite(n.dir, LastPopped.dir)
    /\ \A d \in Directions, t \in Turns :
          Perpendicular(turn(d, t), d) /\ ~Opposite(turn(d, t), d)

\* entries heading each of the four directions were popped and expanded,
\* and the last pass inserted an entry straight on and two turned ones
C15_Witness ==
    /\ pc = "loop"
    /\ \A d \in Directions :
          \E i \in 1..Len(popped) : popped[i].dir = d /\ fates[i].branch = "expand"
    /\ Cardinality(inserted) = 3

\* both seeds have been popped and expanded
SeedsExpanded ==
    /\ Len(popped) >= 2
    /\ {popped[1], popped[2]} = Seeds
    /\ fates[1].branch = "expand" /\ fates[2].branch = "expand"

\* the queue has received an entry for the move from (0,0) in direction d
\* with steps = 1, if the cell is in the map
FirstMoveReceived(d) ==
    LET p == move_dir(<<0, 0>>, d)
    IN  p \in DOMAIN game.map =>
            Entry(p, d, 1, game.map[p]) \in queue \cup Range(popped)

\* C16: for every min_steps, once both seeds have been expanded the queue
\* has received the entry ((1,0), Right, steps 1) and the entry
\* ((0,1), Down, steps 1), each if its cell is in the map
C16_FirstMoveNotBlocked ==
    SeedsExpanded => FirstMoveReceived("Right") /\ FirstMoveReceived("Down")

\* C17: every entry that has been in the queue has its position in the map,
\* within 0..max_x and 0..max_y, and no pass takes the `continue` of the
\* out-of-map guard
C17_EntriesInsideGrid ==
    game # NoGame =>
        /\ \A e \in queue \cup inserted \cup Range(popped) :
              /\ e.pos \in DOMAIN game.map
              /\ e.pos \in (0..game.max_x) \X (0..game.max_y)
        /\ \A i \in 1..Len(fates) : fates[i].branch # "outside"

\* on a full rectangle, the last pass expanded an entry whose move straight
\* on leaves the grid although its run allows it, and a turn of it too
C17_Witness ==
    /\ pc = "loop" /\ popped # <<>> /\ Rectangular(game)
    /\ LastFate.branch = "expand"
    /\ LastPopped.steps >= 1
    /\ LastPopped.steps < max_steps /\ LastPopped.steps >= min_steps
    /\ move_dir(LastPopped.pos, LastPopped.dir) \notin DOMAIN game.map
    /\ Cardinality(inserted) = 1

\* C18: the entry a pass pops has the least heat of the queue, so that after
\* the pass no entry of the queue has less heat than it, and the heats of
\* the popped entries never decrease along a run
C18_PopsInHeatOrder ==
    /\ popped # <<>> => \A e \in queue : LastPopped.heat <= e.heat
    /\ \A i, j \in 1..Len(popped) : i < j => popped[i].heat <= popped[j].heat

\* a run on a grid with a zero-cost cell: two successive pops have the same
\* heat of 1 or more, the second one on a zero-cost cell, and a later pop
\* has more heat
C18_Witness ==
    \E i \in 1..Len(popped) :
        /\ i + 2 <= Len(popped)
        /\ popped[i].heat >= 1
        /\ popped[i + 1].heat = popped[i].heat
        /\ game.map[popped[i + 1].pos] = 0
        /\ popped[i + 2].heat > popped[i + 1].heat

(***************************************************************************)
(* The entries that legal paths witness, from the rules and not from the   *)
(* search: (pos, dir, steps, heat) is witnessed when some path from (0,0)  *)
(* that stays in the map, never reverses, has no run longer than mx and    *)
(* turns only after a run of at least mn ends on pos heading dir after     *)
(* exactly steps moves in dir, the costs of the cells entered summing to   *)
(* heat.                                                                   *)
(***************************************************************************)
Add(pos, d) == <<pos[1] + Vec(d)[1], pos[2] + Vec(d)[2]>>

\* the paths of one move
OneMovePaths(g, mx) ==
    {Entry(Add(<<0, 0>>, d), d, 1, g.map[Add(<<0, 0>>, d)]) :
        d \in {x \in Directions : mx >= 1 /\ Add(<<0, 0>>, x) \in DOMAIN g.map}}

\* what the paths witnessing e witness when one legal move is added
OneMoveMore(g, mn, mx, e) ==
    {Entry(Add(e.pos, d), d, IF d = e.dir THEN e.steps + 1 ELSE 1,
           e.heat + g.map[Add(e.pos, d)]) :
        d \in {x \in Directions :
                  /\ Add(e.pos, x) \in DOMAIN g.map
                  /\ \/ x = e.dir /\ e.steps < mx
                     \/ Perpendicular(x, e.dir) /\ e.steps >= mn /\ mx >= 1}}

\* the witnessed entries of heat up to h: all of known, and those that
\* follow from the entries of fresh
RECURSIVE WitnessedFrom(_, _, _, _, _, _)
WitnessedFrom(g, mn, mx, h, known, fresh) ==
    IF fresh = {}
    THEN known
    ELSE LET all == known \cup fresh
             more == {n \in UNION {OneMoveMore(g, mn, mx, e) : e \in fresh} :
                         n.heat <= h}
         IN  WitnessedFrom(g, mn, mx, h, all, more \ all)

Witnessed(g, mn, mx, h) == WitnessedFrom(g, mn, mx, h, {}, OneMovePaths(g, mx))

\* C19: every entry that has been in the queue is a seed, with heat 0, or
\* has as its heat the sum of the costs along a legal path from (0,0) that
\* ends on its pos heading its dir after exactly its steps moves in dir
C19_EntriesWitnessedByLegalPaths ==
    Returned =>
        LET seen == queue \cup Range(popped)
        IN  seen \subseteq
                Seeds \cup Witnessed(game, min_steps, max_steps,
                                     MaxOf({e.heat : e \in seen}))

(***************************************************************************)
(* The staleness check.                                                    *)
(***************************************************************************)
\* C20, as claimed: a popped entry is dropped as stale exactly when its heat
\* is strictly greater than the heat the ledger holds for its
\* (pos, dir, steps); with an equal heat it is not dropped
C20_StaleIffStrictlyGreater ==
    \A i \in 1..Len(popped) :
        fates[i].branch = "stale" <=>
            /\ fates[i].existing_heat.tag = "Some"
            /\ popped[i].heat > fates[i].existing_heat.value

\* C20, amended: a popped entry is dropped as stale exactly when the ledger
\* holds a heat for its (pos, dir, steps) and its own heat is greater than
\* or equal to it; with an equal heat it is dropped too
C20_StaleIffNotLess ==
    \A i \in 1..Len(popped) :
        fates[i].branch = "stale" <=>
            /\ fates[i].existing_heat.tag = "Some"
            /\ popped[i].heat >= fates[i].existing_heat.value

\* in one run an entry was popped with the heat the ledger held for it and
\* dropped, and another one with more heat than the ledger held
C20_Witness ==
    /\ ValidConfig
    /\ \E i \in 1..Len(popped) :
          /\ fates[i].branch = "stale"
          /\ fates[i].existing_heat = Some(popped[i].heat)
    /\ \E i \in 1..Len(popped) :
          /\ fates[i].branch = "stale"
          /\ fates[i].existing_heat.value < popped[i].heat

(***************************************************************************)
(* The ledger.                                                             *)
(***************************************************************************)
\* C21: every popped entry that was expanded is in the ledger under its
\* (pos, dir, steps) from its expansion on, at its heat or a lower one,
\* whatever its steps, steps < min_steps included
C21_ExpandedEntriesRecorded ==
    \A i \in 1..Len(popped) :
        fates[i].branch = "expand" =>
            /\ Key(popped[i]) \in DOMAIN results
            /\ results[Key(popped[i])] <= popped[i].heat

\* C22: a pass inserts an entry into the queue only if the ledger holds
\* nothing for its (pos, dir, steps) or holds a greater heat than its own;
\* an entry whose state is recorded at an equal or lower heat is never
\* inserted
C22_PushOnlyIfImproving ==
    \A n \in inserted :
        Key(n) \in DOMAIN results => n.heat < results[Key(n)]

\* the heats at which the state with key k has been popped so far
PoppedHeats(k) == {popped[i].heat : i \in {j \in 1..Len(popped) : Key(popped[j]) = k}}

\* C23: the ledger is empty when the loop starts, what it holds for a key is
\* the least heat at which that state has been popped so far, and no step
\* of a query removes a key or replaces its heat by a greater one
C23_LedgerNonIncreasing ==
    /\ [](/\ pc = "loop" /\ popped = <<>> => results = EmptyResults
          /\ \A k \in DOMAIN results :
                PoppedHeats(k) # {} /\ results[k] = MinOf(PoppedHeats(k)))
    /\ [][\A k \in DOMAIN results :
              k \in DOMAIN results' /\ results'[k] <= results[k]]_vars

\* the ledger holds a state that was popped a second time, with more heat
\* than at its first pop, and still holds the heat of the first pop
C23_Witness ==
    \E i, j \in 1..Len(popped) :
        /\ i < j
        /\ Key(popped[i]) = Key(popped[j])
        /\ popped[i].heat < popped[j].heat
        /\ Key(popped[i]) \in DOMAIN results
        /\ results[Key(popped[i])] = popped[i].heat

(***************************************************************************)
(* The search without the early exit: a popped entry on the goal with      *)
(* steps >= mn is noted and then treated like any other entry, the loop    *)
(* runs until the queue is empty, and the least heat noted is returned.    *)
(***************************************************************************)
\* the least heat of the goal entries popped from queue q on, with ledger r
\* and `best` the least heat noted so far (-1 for none)
RECURSIVE Exhaust(_, _, _, _, _, _)
Exhaust(g, mn, mx, q, r, best) ==
    IF q = {}
    THEN best
    ELSE LET e == first(q)
             q1 == q \ {e}
         IN  IF Skipped(g, r, e)
             THEN Exhaust(g, mn, mx, q1, r, best)
             ELSE Exhaust(g, mn, mx, q1 \cup Successors(g, mn, mx, e),
                          IF e.steps >= mn THEN results_insert(r, Key(e), e.heat) ELSE r,
                          IF e.pos = end_pos(g) /\ e.steps >= mn
                          THEN Best({best, e.heat})
                          ELSE best)

puzzle_exhaustive(g, mn, mx) ==
    LET best == Exhaust(g, mn, mx, Seeds, EmptyResults, -1)
    IN  IF best = -1 THEN Err("EndUnreachable") ELSE Ok(best)

\* C24: puzzle, which returns at the first popped entry on the goal with
\* steps >= min_steps, returns what the search without the early exit
\* returns: the same cost, and Err(EndUnreachable) on the same inputs
C24_EarlyExitEquivalent ==
    Returned => ret = puzzle_exhaustive(game, min_steps, max_steps)

\* puzzle returned a cost while the queue still held an entry on the goal
\* with steps >= min_steps and more heat
C24_Witness ==
    /\ Returned /\ ret.tag = "Ok" /\ ValidConfig
    /\ \E e \in queue :
          e.pos = end_pos(game) /\ e.steps >= min_steps /\ e.heat > ret.value

\* width x height x 4 x max_steps for the game g
StateSpaceSize(g, mx) == (g.max_x + 1) * (g.max_y + 1) * 4 * mx

\* C25: with max_steps >= 1 and min_steps <= max_steps, the ledger never
\* holds more than width x height x 4 x max_steps keys
C25_LedgerSizeBounded ==
    ValidConfig /\ game # NoGame =>
        Cardinality(DOMAIN results) <= StateSpaceSize(game, max_steps)

\* on a full rectangle of two rows and two columns or more, the ledger
\* holds more than half of width x height x 4 x max_steps keys, a seed with
\* steps = 0 among them
C25_Witness ==
    /\ ValidConfig /\ game # NoGame /\ Rectangular(game)
    /\ game.max_x >= 1 /\ game.max_y >= 1
    /\ Cardinality(DOMAIN results) * 2 > StateSpaceSize(game, max_steps)
    /\ \E k \in DOMAIN results : k[3] = 0

\* C27: a state (pos, dir, steps) with steps >= min_steps is expanded at
\* most once in a query: every later pop of the same state finds in the
\* ledger a heat less than or equal to its own and is dropped as stale
C27_ExpandedAtMostOnce ==
    \A i, j \in 1..Len(popped) :
        /\ i < j
        /\ Key(popped[i]) = Key(popped[j])
        /\ popped[i].steps >= min_steps
        /\ fates[i].branch = "expand"
        => /\ fates[j].branch = "stale"
           /\ fates[j].existing_heat.tag = "Some"
           /\ fates[j].existing_heat.value <= popped[j].heat

\* a state expanded once was popped again, once with the same heat and once
\* with more heat
C27_Witness ==
    /\ ValidConfig
    /\ \E i, j, k \in 1..Len(popped) :
          /\ i < j /\ j < k
          /\ Key(popped[i]) = Key(popped[j]) /\ Key(popped[i]) = Key(popped[k])
          /\ fates[i].branch = "expand" /\ popped[i].steps >= min_steps
          /\ popped[j].heat = popped[i].heat
          /\ popped[k].heat > popped[i].heat

(***************************************************************************)
(* Termination.  The run of puzzle with the histories cut to the last      *)
(* pass, so that a loop that went on for ever would come back to a state;  *)
(* the program is sequential, so a step that can be taken is taken.        *)
(***************************************************************************)
\* e is what pop_first returns from q: the entry no other one precedes
is_first(q, e) == e \in q /\ \A f \in q : ~cmp_less(f, e)

\* one iteration of `while let Some(..) = queue.pop_first()`, or the
\* Err(EndUnreachable) after the loop; popped and fates keep the last pass
LoopLast ==
    /\ pc = "loop"
    /\ IF queue = {}
       THEN /\ ret' = Err("EndUnreachable")
            /\ pc' = "done"
            /\ UNCHANGED <<queue, results, popped, fates, inserted>>
       ELSE \E e \in queue :
               /\ is_first(queue, e)
               /\ Step(e)
               /\ popped' = <<e>>
               /\ fates' = <<Fate(game, min_steps, results, e)>>
    /\ UNCHANGED <<input, game, min_steps, max_steps, strayed, calls>>
    /\ UNCHANGED <<vars20, vars14>>

NextLast == Parse \/ CallPuzzle \/ LoopLast

SpecTermination == Init /\ [][NextLast]_vars /\ WF_vars(LoopLast)

\* C26: on every grid and with every configuration, a call of puzzle that
\* has entered its loop returns: a cost, or Err(EndUnreachable) with the
\* queue empty
C26_PuzzleTerminates ==
    pc = "loop" ~> (pc = "done" /\ (ret.tag = "Ok" \/ queue = {}))

\* with min_steps >= 1 the queue was emptied and puzzle returned
\* Err(EndUnreachable); the last entry popped came over zero-cost cells
\* and, with steps < min_steps, was not recorded in the ledger
C26_Witness ==
    /\ Returned /\ min_steps >= 1 /\ ValidConfig
    /\ ret = Err("EndUnreachable") /\ queue = {}
    /\ popped # <<>>
    /\ LastPopped.steps >= 1 /\ LastPopped.steps < min_steps
    /\ LastPopped.heat = 0
    /\ results # EmptyResults

(***************************************************************************)
(* Day 20, src/day-20/src/game.rs: the modules, Game::new, and             *)
(* Module::process_signal.                                                 *)
(***************************************************************************)
MaxOutputs == 2     \* a module of the networks has up to MaxOutputs outputs
MaxPresses == 2     \* part1 is followed for MaxPresses calls of send_signal
MaxPulses == 12     \* and for MaxPulses pops in all

None == [tag |-> "None"]

\* State::flip
flip(state) == IF state = "On" THEN "Off" ELSE "On"

\* FlipFlop::new
FlipFlop == [kind |-> "FlipFlop", state |-> "Off"]

\* Conjunction::new
Conjunction == [kind |-> "Conjunction", incoming_signals |-> None]

Broadcaster == [kind |-> "Broadcaster"]

\* Module::new
Module(name, outputs, behavior) ==
    [name |-> name, outputs |-> outputs, behavior |-> behavior, signal_count |-> <<0, 0>>]

\* Game::find_inputs: for each name some module lists as an output, the
\* names of the modules that list it, in the order of the modules
find_inputs(modules) ==
    LET listed == UNION {Range(modules[i].outputs) : i \in 1..Len(modules)}
        listers(o) == SelectSeq(modules, LAMBDA m : o \in Range(m.outputs))
    IN  [o \in listed |-> [i \in 1..Len(listers(o)) |-> listers(o)[i].name]]

\* Conjunction::init
init(c, input_names) ==
    [c EXCEPT !.incoming_signals = Some([n \in Range(input_names) |-> "Low"])]

\* mutant of Game_new: the conjunctions are not inited
Game_new_without_init(modules) ==
    [n \in {modules[i].name : i \in 1..Len(modules)} |->
        modules[CHOOSE i \in 1..Len(modules) :
                    /\ modules[i].name = n
                    /\ \A j \in 1..Len(modules) : modules[j].name = n => j <= i]]

\* Game::new: every conjunction is inited with the names of its inputs,
\* then the modules are collected by name (the last of a name stays)
Game_new(modules) ==
    LET inputs == find_inputs(modules)
        inited(m) ==
            IF m.behavior.kind = "Conjunction"
            THEN [m EXCEPT !.behavior =
                     init(m.behavior,
                          IF m.name \in DOMAIN inputs THEN inputs[m.name] ELSE <<>>)]
            ELSE m
    IN  [n \in {modules[i].name : i \in 1..Len(modules)} |->
            inited(modules[CHOOSE i \in 1..Len(modules) :
                               /\ modules[i].name = n
                               /\ \A j \in 1..Len(modules) : modules[j].name = n => j <= i])]

\* the pulses of self to each of its outputs, in their order
to_outputs(self, signal) ==
    [i \in 1..Len(self.outputs) |-> <<self.name, self.outputs[i], signal>>]

\* signal_count after one more pulse
counted(count, signal) ==
    IF signal = "Low" THEN <<count[1] + 1, count[2]>> ELSE <<count[1], count[2] + 1>>

\* mutant of process_signal: a flip-flop flips on every pulse
process_signal_flips_on_high(self, from, signal) ==
    LET self1 == [self EXCEPT !.signal_count = counted(self.signal_count, signal)]
    IN  CASE self.behavior.kind = "FlipFlop" ->
                LET state == flip(self.behavior.state)
                    self2 == [self1 EXCEPT !.behavior.state = state]
                IN  [tag |-> "Ok", self |-> self2,
                     queue |-> to_outputs(self2, IF state = "On" THEN "High" ELSE "Low")]
          [] self.behavior.kind = "Conjunction" ->
                IF self.behavior.incoming_signals = None
                THEN [tag |-> "Err", self |-> self1, error |-> "Conjunction not inited"]
                ELSE IF from \notin DOMAIN self.behavior.incoming_signals.value
                THEN [tag |-> "Err", self |-> self1, error |-> "Incoming signal not exists"]
                ELSE LET signals == [self.behavior.incoming_signals.value
                                         EXCEPT ![from] = signal]
                         self2 == [self1 EXCEPT !.behavior.incoming_signals = Some(signals)]
                     IN  [tag |-> "Ok", self |-> self2,
                          queue |-> to_outputs(self2,
                              IF \A n \in DOMAIN signals : signals[n] = "High"
                              THEN "Low" ELSE "High")]
          [] self.behavior.kind = "Broadcaster" ->
                [tag |-> "Ok", self |-> self1, queue |-> to_outputs(self1, signal)]

\* mutant of process_signal: a conjunction decides on what it remembered
\* before the pulse, and stores the pulse afterwards
process_signal_stores_late(self, from, signal) ==
    LET self1 == [self EXCEPT !.signal_count = counted(self.signal_count, signal)]
    IN  CASE self.behavior.kind = "FlipFlop" ->
                IF signal = "Low"
                THEN LET state == flip(self.behavior.state)
                         self2 == [self1 EXCEPT !.behavior.state = state]
                     IN  [tag |-> "Ok", self |-> self2,
                          queue |-> to_outputs(self2, IF state = "On" THEN "High" ELSE "Low")]
                ELSE [tag |-> "Ok", self |-> self1, queue |-> <<>>]
          [] self.behavior.kind = "Conjunction" ->
                IF self.behavior.incoming_signals = None
                THEN [tag |-> "Err", self |-> self1, error |-> "Conjunction not inited"]
                ELSE IF from \notin DOMAIN self.behavior.incoming_signals.value
                THEN [tag |-> "Err", self |-> self1, error |-> "Incoming signal not exists"]
                ELSE LET before == self.behavior.incoming_signals.value
                         signals == [before EXCEPT ![from] = signal]
                         self2 == [self1 EXCEPT !.behavior.incoming_signals = Some(signals)]
                     IN  [tag |-> "Ok", self |-> self2,
                          queue |-> to_outputs(self2,
                              IF \A n \in DOMAIN before : before[n] = "High"
                              THEN "Low" ELSE "High")]
          [] self.behavior.kind = "Broadcaster" ->
                [tag |-> "Ok", self |-> self1, queue |-> to_outputs(self1, signal)]

\* Module::process_signal: the module afterwards and the pulses it sends,
\* or the error; signal_count is written before the match
process_signal(self, from, signal) ==
    LET self1 == [self EXCEPT !.signal_count = counted(self.signal_count, signal)]
    IN  CASE self.behavior.kind = "FlipFlop" ->
                IF signal = "Low"
                THEN LET state == flip(self.behavior.state)
                         self2 == [self1 EXCEPT !.behavior.state = state]
                     IN  [tag |-> "Ok", self |-> self2,
                          queue |-> to_outputs(self2, IF state = "On" THEN "High" ELSE "Low")]
                ELSE [tag |-> "Ok", self |-> self1, queue |-> <<>>]
          [] self.behavior.kind = "Conjunction" ->
                IF self.behavior.incoming_signals = None
                THEN [tag |-> "Err", self |-> self1, error |-> "Conjunction not inited"]
                ELSE IF from \notin DOMAIN self.behavior.incoming_signals.value
                THEN [tag |-> "Err", self |-> self1, error |-> "Incoming signal not exists"]
                ELSE LET signals == [self.behavior.incoming_signals.value
                                         EXCEPT ![from] = signal]
                         self2 == [self1 EXCEPT !.behavior.incoming_signals = Some(signals)]
                     IN  [tag |-> "Ok", self |-> self2,
                          queue |-> to_outputs(self2,
                              IF \A n \in DOMAIN signals : signals[n] = "High"
                              THEN "Low" ELSE "High")]
          [] self.behavior.kind = "Broadcaster" ->
                [tag |-> "Ok", self |-> self1, queue |-> to_outputs(self1, signal)]

(***************************************************************************)
(* Day 20: Game::part1 and Game::send_signal as a state machine.           *)
(***************************************************************************)
\* the program of day 17 is not running
Idle17 ==
    /\ input = <<>>
    /\ pc = "idle"
    /\ game = NoGame
    /\ min_steps = 0
    /\ max_steps = 0
    /\ queue = {}
    /\ results = EmptyResults
    /\ ret = NoRet
    /\ popped = <<>>
    /\ strayed = FALSE
    /\ calls = 0
    /\ fates = <<>>
    /\ inserted = {}

\* the sequences without repetition of up to n elements of S
RECURSIVE SeqsUpTo(_, _)
SeqsUpTo(S, n) ==
    IF n = 0
    THEN {<<>>}
    ELSE LET shorter == SeqsUpTo(S, n - 1)
         IN  shorter \cup {Append(q, x) : q \in shorter, x \in S}

Outputs(S) == {q \in SeqsUpTo(S, MaxOutputs) : Cardinality(Range(q)) = Len(q)}

\* the module lists handed to Game::new: a broadcaster and two modules a
\* and b, each a flip-flop or a conjunction; "out" is the name of no module
Networks ==
    {<<Module("broadcaster", ob, Broadcaster), Module("a", oa, ka), Module("b", obb, kb)>> :
        ob \in Outputs({"a", "b"}) \ {<<>>},
        oa \in Outputs({"a", "b", "out"}), obb \in Outputs({"a", "b", "out"}),
        ka \in {FlipFlop, Conjunction}, kb \in {FlipFlop, Conjunction}}

InitPulses ==
    /\ Idle17
    /\ Idle14
    /\ d20_pc = "ready"
    /\ d20_map \in {Game_new(modules) : modules \in Networks}
    /\ d20_queue = <<>>
    /\ d20_pulse_count = <<0, 0>>
    /\ d20_presses = 0
    /\ d20_sent = <<>>
    /\ d20_ids = <<>>
    /\ d20_handled = <<>>

\* mutant of append: the new pulses go to the front of the queue
append_front(q, new) == new \o q

\* VecDeque::append: the new pulses go to the back of the queue
append(q, new) == q \o new

\* the call send_signal("button", "broadcaster", Signal::Low, ..) of part1,
\* up to the loop
SendSignal ==
    /\ d20_pc = "ready"
    /\ d20_presses < MaxPresses
    /\ d20_presses' = d20_presses + 1
    /\ d20_queue' = append(<<>>, <<<<"button", "broadcaster", "Low">>>>)
    /\ d20_ids' = append(<<>>, <<Len(d20_sent) + 1>>)
    /\ d20_sent' = Append(d20_sent, [pulse |-> <<"button", "broadcaster", "Low">>, by |-> 0])
    /\ d20_pc' = "sending"
    /\ UNCHANGED <<d20_map, d20_pulse_count, d20_handled>>
    /\ UNCHANGED <<vars17, vars14>>

\* one iteration of `while let Some(..) = queue.pop_front()` in
\* send_signal, with the pulse counted for part1, or the return of
\* send_signal after the loop
SendLoop ==
    /\ d20_pc = "sending"
    /\ IF d20_queue = <<>>
       THEN /\ d20_pc' = "ready"
            /\ UNCHANGED <<d20_map, d20_queue, d20_pulse_count, d20_sent, d20_ids,
                           d20_handled>>
       ELSE LET from == Head(d20_queue)[1]
                module_name == Head(d20_queue)[2]
                signal == Head(d20_queue)[3]
                pop == Len(d20_handled) + 1
            IN  /\ pop <= MaxPulses
                /\ d20_handled' = Append(d20_handled,
                                         [pulse |-> Head(d20_queue), id |-> Head(d20_ids)])
                /\ d20_pulse_count' = counted(d20_pulse_count, signal)
                /\ IF module_name \in DOMAIN d20_map
                   THEN LET r == process_signal(d20_map[module_name], from, signal)
                        IN  /\ d20_map' = [d20_map EXCEPT ![module_name] = r.self]
                            /\ IF r.tag = "Ok"
                               THEN /\ d20_queue' = append(Tail(d20_queue), r.queue)
                                    /\ d20_ids' = append(Tail(d20_ids),
                                           [i \in 1..Len(r.queue) |-> Len(d20_sent) + i])
                                    /\ d20_sent' = d20_sent \o
                                           [i \in 1..Len(r.queue) |->
                                               [pulse |-> r.queue[i], by |-> pop]]
                                    /\ d20_pc' = "sending"
                               ELSE /\ d20_queue' = Tail(d20_queue)
                                    /\ d20_ids' = Tail(d20_ids)
                                    /\ d20_sent' = d20_sent
                                    /\ d20_pc' = "failed"
                   ELSE /\ d20_queue' = Tail(d20_queue)
                        /\ d20_ids' = Tail(d20_ids)
                        /\ UNCHANGED <<d20_map, d20_sent>>
                        /\ d20_pc' = "sending"
    /\ UNCHANGED d20_presses
    /\ UNCHANGED <<vars17, vars14>>

NextPulses == SendSignal \/ SendLoop

SpecPulses == InitPulses /\ [][NextPulses]_vars

\* C28: the pulses are popped in exactly the order in which they were
\* pushed, so that the pulses pushed while an earlier pop was handled are
\* all popped before any pulse pushed while a later pop was handled, the
\* queue holds the pushed pulses not yet popped, in their order, and
\* part1's counters count every popped pulse once, the button's included
C28_PulsesFirstInFirstOut ==
    /\ \A i \in 1..Len(d20_handled) :
          /\ d20_handled[i].id = i
          /\ d20_handled[i].pulse = d20_sent[i].pulse
    /\ \A i, j \in 1..Len(d20_handled) :
          i < j /\ d20_handled[i].pulse[1] # "button" /\ d20_handled[j].pulse[1] # "button"
              => d20_sent[d20_handled[i].id].by <= d20_sent[d20_handled[j].id].by
    /\ d20_ids = [i \in 1..Len(d20_queue) |-> Len(d20_handled) + i]
    /\ d20_queue = [i \in 1..Len(d20_queue) |-> d20_sent[Len(d20_handled) + i].pulse]
    /\ d20_pulse_count[1] =
          Cardinality({i \in 1..Len(d20_handled) : d20_handled[i].pulse[3] = "Low"})
    /\ d20_pulse_count[2] =
          Cardinality({i \in 1..Len(d20_handled) : d20_handled[i].pulse[3] = "High"})
    /\ Cardinality({i \in 1..Len(d20_sent) : d20_sent[i].pulse[1] = "button"}) = d20_presses
    /\ d20_pc = "ready" => Len(d20_handled) = Len(d20_sent)

\* two presses; in the second, the two pulses of the broadcaster were
\* handled, each emitting pulses, and the pulses emitted by the first
\* were popped before the pulses emitted by the second
C28_Witness ==
    /\ d20_presses = 2
    /\ d20_pulse_count[1] >= 3
    /\ d20_pulse_count[2] >= 2
    /\ \E i, j \in 1..Len(d20_handled) :
          /\ i < j
          /\ d20_sent[i].by >= 1
          /\ d20_sent[j].by = d20_sent[i].by + 1
          /\ d20_sent[i].by < i - 2
          /\ d20_sent[d20_sent[i].by].by = d20_sent[d20_sent[j].by].by
          /\ d20_handled[i].pulse[3] # d20_handled[j].pulse[3]
          /\ \E k \in 1..Len(d20_handled) : k # i /\ d20_sent[k].by = d20_sent[i].by

\* the modules that list name as an output
Listing(name) == {n \in DOMAIN d20_map : name \in Range(d20_map[n].outputs)}

\* the pulses pushed by the step
Emitted == [i \in 1..(Len(d20_sent') - Len(d20_sent)) |-> d20_sent'[Len(d20_sent) + i].pulse]

\* signal, once to every output of the module, in their order
ToEvery(name, signal) ==
    [i \in 1..Len(d20_map[name].outputs) |-> <<name, d20_map[name].outputs[i], signal>>]

\* what the claim says of the step that handles the pulse at the head of
\* the queue, for a flip-flop and for a conjunction
HandledAsStated ==
    LET from == Head(d20_queue)[1]
        name == Head(d20_queue)[2]
        signal == Head(d20_queue)[3]
        before == d20_map[name].behavior
        after == d20_map'[name].behavior
    IN  /\ before.kind = "FlipFlop" /\ signal = "High" =>
              /\ after = before
              /\ Emitted = <<>>
        /\ before.kind = "FlipFlop" /\ signal = "Low" =>
              /\ after.kind = "FlipFlop"
              /\ after.state # before.state
              /\ Emitted = ToEvery(name, IF after.state = "On" THEN "High" ELSE "Low")
        /\ before.kind = "Conjunction" =>
              /\ d20_pc' # "failed"
              /\ after.kind = "Conjunction"
              /\ after.incoming_signals.tag = "Some"
              /\ DOMAIN after.incoming_signals.value = DOMAIN before.incoming_signals.value
              /\ \A n \in DOMAIN after.incoming_signals.value :
                    after.incoming_signals.value[n] =
                        IF n = from THEN signal ELSE before.incoming_signals.value[n]
              /\ Emitted = ToEvery(name,
                    IF \A n \in DOMAIN after.incoming_signals.value :
                           after.incoming_signals.value[n] = "High"
                    THEN "Low" ELSE "High")

\* C29: before any pulse is handled every flip-flop is Off and every
\* conjunction remembers Low for exactly the modules that list it as an
\* output; no pulse makes process_signal fail; a flip-flop handed High
\* keeps its state and sends nothing, handed Low it toggles and sends to
\* every output High if it is now On and Low if not; a conjunction stores
\* the pulse as what it remembers of the sender and then sends to every
\* output Low if all it remembers is High and High if not
C29_ModuleSemantics ==
    /\ [](/\ d20_pc # "failed"
          /\ d20_handled = <<>> =>
                \A n \in DOMAIN d20_map :
                    /\ d20_map[n].behavior.kind = "Conjunction" =>
                          d20_map[n].behavior.incoming_signals =
                              Some([l \in Listing(n) |-> "Low"])
                    /\ d20_map[n].behavior.kind = "FlipFlop" =>
                          d20_map[n].behavior.state = "Off")
    /\ [][d20_pc = "sending" /\ d20_queue # <<>> /\ Head(d20_queue)[2] \in DOMAIN d20_map
              => HandledAsStated]_vars

\* a flip-flop that is On has been handed a High pulse, and the pulse
\* handled last made a conjunction with two inputs remember High for
\* both, one of them stored with this pulse, and send Low to its outputs
C29_Witness ==
    /\ d20_pc = "sending"
    /\ d20_handled # <<>>
    /\ \E f \in DOMAIN d20_map :
          /\ d20_map[f].behavior.kind = "FlipFlop"
          /\ d20_map[f].behavior.state = "On"
          /\ d20_map[f].signal_count[2] >= 1
    /\ LET last == d20_handled[Len(d20_handled)].pulse
       IN  /\ last[2] \in DOMAIN d20_map
           /\ last[3] = "High"
           /\ d20_map[last[2]].behavior.kind = "Conjunction"
           /\ d20_map[last[2]].signal_count[2] >= 2
           /\ Cardinality(Listing(last[2])) = 2
           /\ d20_map[last[2]].outputs # <<>>
           /\ d20_sent[Len(d20_sent)].by = Len(d20_handled)
           /\ d20_sent[Len(d20_sent)].pulse[3] = "Low"

(***************************************************************************)
(* Day 14: Game::tilt, Game::tilt_round and Game::tilt_multiple_rounds.    *)
(* A Game is [map, max_x, max_y]; map is a function from the <<x, y>> of   *)
(* the cells that hold a rock to "Rounded" or "Cube".                      *)
(***************************************************************************)
MaxSide == 3        \* platforms have up to MaxSide rows and columns,
MaxRocks == 3       \* up to MaxRocks rocks
MaxRounds == 8      \* and tilt_multiple_rounds is asked for up to MaxRounds rounds

\* HashMap::insert and HashMap::remove
map_insert(map, k, v) == [c \in DOMAIN map \cup {k} |-> IF c = k THEN v ELSE map[c]]

map_remove(map, k) == [c \in DOMAIN map \ {k} |-> map[c]]

\* u64::saturating_sub(1)
saturating_sub_1(n) == IF n = 0 THEN 0 ELSE n - 1

\* the cell at coordinate c of a line: column `line` for North and South,
\* row `line` for West and East
CellOf(direction, line, c) ==
    IF direction \in {"North", "South"} THEN <<line, c>> ELSE <<c, line>>

\* the place after c in the direction of the scan
Beyond(direction, c) ==
    IF direction \in {"North", "West"} THEN c + 1 ELSE saturating_sub_1(c)

\* the inner loop of a branch of Game::tilt: the cells of one line, at the
\* coordinates cs in their order, with the free place so far
RECURSIVE tilt_line(_, _, _, _, _)
tilt_line(map, direction, line, cs, free) ==
    IF cs = <<>>
    THEN map
    ELSE LET c == Head(cs)
             cell == CellOf(direction, line, c)
         IN  IF cell \notin DOMAIN map
             THEN tilt_line(map, direction, line, Tail(cs), free)
             ELSE IF map[cell] = "Cube"
             THEN tilt_line(map, direction, line, Tail(cs), Beyond(direction, c))
             ELSE LET moved ==
                          IF c # free
                          THEN map_remove(
                                   map_insert(map, CellOf(direction, line, free), map[cell]),
                                   cell)
                          ELSE map
                  IN  tilt_line(moved, direction, line, Tail(cs), Beyond(direction, free))

\* 0..=max and (0..=max).rev()
Ascending(max) == [i \in 1..(max + 1) |-> i - 1]

Descending(max) == [i \in 1..(max + 1) |-> max + 1 - i]

\* the outer loop of a branch of Game::tilt, over the lines from `line` on
RECURSIVE tilt_lines(_, _, _)
tilt_lines(g, direction, line) ==
    LET lines == IF direction \in {"North", "South"} THEN g.max_x ELSE g.max_y
        along == IF direction \in {"North", "South"} THEN g.max_y ELSE g.max_x
        cs == IF direction \in {"North", "West"} THEN Ascending(along) ELSE Descending(along)
        free == IF direction \in {"North", "West"} THEN 0 ELSE along
    IN  IF line > lines
        THEN g
        ELSE tilt_lines([g EXCEPT !.map = tilt_line(g.map, direction, line, cs, free)],
                        direction, line + 1)

\* Game::tilt
tilt(g, direction) == tilt_lines(g, direction, 0)

\* Game::tilt_round
tilt_round(g) == tilt(tilt(tilt(tilt(g, "North"), "West"), "South"), "East")

\* mutant of skip: all the remaining rounds are skipped
skip_all_remaining(index, history_index, rounds) == rounds

\* the body of `if self == history_game`: index afterwards, or -1 where a
\* subtraction of usize would go below zero
skip(index, history_index, rounds) ==
    IF index < history_index \/ rounds < index
    THEN -1
    ELSE LET diff == index - history_index
             remaining_index == rounds - index
         IN  IF diff = 0 THEN -1 ELSE index + (remaining_index \div diff) * diff

\* the for loop over the history entries equal to self, in the order
\* history_indices
RECURSIVE skips(_, _, _)
skips(index, history_indices, rounds) ==
    IF history_indices = <<>> \/ index = -1
    THEN index
    ELSE skips(skip(index, Head(history_indices), rounds), Tail(history_indices), rounds)

\* the orders in which a HashMap may hand out the keys S
Orders(S) == {q \in SeqsUpTo(S, Cardinality(S)) : Len(q) = Cardinality(S) /\ Range(q) = S}

\* the platforms Game::parse returns: some cell holds a rock, and max_x
\* and max_y are the largest x and y of a rock
Rocks == {"Rounded", "Cube"}

Cells14 == (0..(MaxSide - 1)) \X (0..(MaxSide - 1))

Platforms ==
    {[map |-> map,
      max_x |-> MaxOf({c[1] : c \in DOMAIN map}),
      max_y |-> MaxOf({c[2] : c \in DOMAIN map})] :
        map \in UNION {[D -> Rocks] :
                          D \in {D \in SUBSET Cells14 : D # {} /\ Cardinality(D) <= MaxRocks}}}

InitRounds ==
    /\ Idle17
    /\ Idle20
    /\ d14_pc = "loop"
    /\ d14_self \in Platforms
    /\ d14_start = d14_self
    /\ d14_rounds \in 0..MaxRounds
    /\ d14_index = 0
    /\ d14_history = <<>>

\* one iteration of the while loop of tilt_multiple_rounds
TiltRound ==
    /\ d14_pc = "loop"
    /\ d14_index < d14_rounds
    /\ LET self == tilt_round(d14_self)
           equal == {h \in DOMAIN d14_history : d14_history[h] = self}
       IN  \E order \in Orders(equal) :
               LET index == skips(d14_index + 1, order, d14_rounds)
               IN  /\ d14_self' = self
                   /\ IF index = -1
                      THEN /\ d14_pc' = "overflow"
                           /\ UNCHANGED <<d14_index, d14_history>>
                      ELSE /\ d14_pc' = "loop"
                           /\ d14_index' = index
                           /\ d14_history' = map_insert(d14_history, index, self)
    /\ UNCHANGED <<d14_rounds, d14_start>>
    /\ UNCHANGED <<vars17, vars20>>

\* the end of the while loop
TiltReturn ==
    /\ d14_pc = "loop"
    /\ ~(d14_index < d14_rounds)
    /\ d14_pc' = "done"
    /\ UNCHANGED <<d14_self, d14_rounds, d14_index, d14_history, d14_start>>
    /\ UNCHANGED <<vars17, vars20>>

NextRounds == TiltRound \/ TiltReturn

SpecRounds == InitRounds /\ [][NextRounds]_vars

\* tilt_round applied n times
RECURSIVE TiltRounds(_, _)
TiltRounds(g, n) == IF n = 0 THEN g ELSE tilt_round(TiltRounds(g, n - 1))

\* C30: tilt_multiple_rounds(rounds) leaves the platform that rounds
\* applications of tilt_round leave, and index never exceeds rounds nor
\* does a subtraction go below zero, in whatever order the history is
\* gone through
C30_CycleSkippingFaithful ==
    /\ d14_pc = "done" => d14_self = TiltRounds(d14_start, d14_rounds)
    /\ d14_index <= d14_rounds
    /\ d14_pc # "overflow"

\* tilt_multiple_rounds returned after it skipped rounds on a platform
\* that is not at rest: the history has a gap before an index
C30_Witness ==
    /\ d14_pc = "done"
    /\ d14_index = d14_rounds
    /\ tilt_round(d14_self) # d14_self
    /\ \E h \in DOMAIN d14_history :
          /\ h >= 3
          /\ h - 1 \notin DOMAIN d14_history
          /\ h - 2 \notin DOMAIN d14_history
          /\ h < d14_rounds

====
